---- MODULE Spec2Model ----
(***************************************************************************)
(* A model of nvidia_stats.c: the NVAPI session functions (load_nvapi,     *)
(* init_nvapi, unload_nvapi, get_nvapi_function), the device enumerator,   *)
(* the thermal mask prober, the two telemetry readers and main.            *)
(*                                                                         *)
(* The program's state is the two globals, main's locals and the locals of *)
(* the function main is currently in.  The environment is the dynamic      *)
(* loader (a reference count of the driver module) and the driver (which   *)
(* interface IDs it resolves, its session state, and the status and data   *)
(* it returns on each call, all chosen freely).                            *)
(*                                                                         *)
(* Integers are C's: int32_t values are kept in -2^31 .. 2^31-1 and the    *)
(* two operations of the prober that leave that range wrap as the          *)
(* documented build (gcc, no options: line 12) makes them wrap.            *)
(*                                                                         *)
(* Spec is main against the full environment.  SpecApi is a client of the  *)
(* session functions alone.  SpecMany is main on a driver that reports     *)
(* more devices than handles[] holds.  SpecFair is main under weak         *)
(* fairness with driver answers that carry a status and no data.           *)
(***************************************************************************)
EXTENDS Integers, Sequences, FiniteSets, TLC

(* ------------------------------ bounds -------------------------------- *)

\* The largest device count the modelled driver reports.
MaxGpus == 2

\* The number of session calls an API client makes in SpecApi.
MaxApiCalls == 4

\* How far beyond the capacity of main's handle buffer the device count of
\* the driver of SpecMany goes.
MaxExcessGpus == 1

(* ------------------------- program constants -------------------------- *)

NVAPI_MAX_PHYSICAL_GPUS == 64

QUERY_NVAPI_INITIALIZE == "0x0150e828"
QUERY_NVAPI_UNLOAD == "0xd22bdd7e"
QUERY_NVAPI_ENUM_PHYSICAL_GPUS == "0xe5ac921f"
QUERY_NVAPI_THERMALS == "0x65fe3aad"
QUERY_NVAPI_VOLTAGE == "0x465f9bcf"

\* The interface IDs the program asks the resolver for.
QueryIds ==
    {QUERY_NVAPI_INITIALIZE, QUERY_NVAPI_UNLOAD, QUERY_NVAPI_ENUM_PHYSICAL_GPUS,
     QUERY_NVAPI_THERMALS, QUERY_NVAPI_VOLTAGE}

INT32_MAX == 2147483647
INT32_MIN == -2147483647 - 1

\* A scan that stops one bit early (bit < 31).
MaskBitsOffByOne == 32 - 1

\* A scan that goes one bit too far (bit <= 32).
MaskBitsOneMore == 32 + 1

\* The number of mask bits the prober scans (for bit = 0; bit < 32).
MaskBits == 32

\* sizeof(NvApiThermals): uint32_t + int32_t + int32_t[40].
SizeofNvApiThermals == 4 + 4 + 4 * 40

\* sizeof(NvApiVoltage): uint32_t + uint32_t + uint32_t[8] + uint32_t + uint32_t[8].
SizeofNvApiVoltage == 4 + 4 + 4 * 8 + 4 + 4 * 8

\* size | (version << 16); the sizes are below 2^16, so the OR is a sum.
VersionStamp(size, version) == size + version * 65536

\* The indexes of values[] the program reads (hotspot, memory).
HotspotIndex == 9
VramIndex == 15

NULL == "NULL"

\* The value dlopen returns for the driver module.
LibHandle == "libnvidia-api.so.1"

\* The address dlsym returns for nvapi_QueryInterface.
QueryInterfacePtr == "nvapi_QueryInterface"

(* --------------------------- the environment -------------------------- *)

\* A status is NvAPI_Status, an int32_t; 0 is success.
ErrStatuses == {-1, 1}
Statuses == {0} \cup ErrStatuses

\* The raw values a driver writes into values[9] and values[15].
RawChoices == {-256, 0, 255, 6400, 65279, 65280}

\* 0xFFFFFFFF as a uint32_t.  A uint32_t is kept as the int32_t with the same
\* 32 bits, so the values from 2^31 up are the negative numbers.
UINT32_MAX == -1

\* The microvolt values a driver writes into value_uv.
VoltageChoices == {0, 850000, UINT32_MAX}

\* What an execution with undefined behaviour does: it faults, or it runs on.
UbOutcomes == {"crash", "survive"}

VARIABLES
    pc,                     \* main's position ("api" when a client drives the session)
    exit_code,              \* main's return value, once pc = "exit"
    nvapi_lib,              \* static void *nvapi_lib
    nvapi_QueryInterface,   \* static NvAPI_QueryInterface_t nvapi_QueryInterface
    lib_refs,               \* loader: references held on the driver module
    nv_session,             \* driver: "none", "active", "unloaded"
    resolvable,             \* driver: the interface IDs it resolves
    crashed,                \* the process has faulted
    step_ops,               \* the loader and driver operations of the latest step
    call_count,             \* operations performed: initialize, enum, unload and
                            \* dlclose in this run, voltage on the current handle
    api_calls,              \* session calls a client has made
    api_call,               \* the session function the client called last
    handles,                \* main: the slots of handles[] the enumeration filled
    gpu_count,              \* main: uint32_t gpu_count
    i,                      \* main: the loop index
    handle,                 \* main: NvPhysicalGpuHandle handle
    mask,                   \* main: int32_t mask
    voltage_uv,             \* main: uint32_t voltage_uv
    hotspot,                \* main: int32_t hotspot
    vram,                   \* main: int32_t vram
    thermals,               \* the NvApiThermals of the function in progress
    bit,                    \* calculate_thermals_mask: int bit
    thermal_log,            \* the thermal queries issued on the current handle
    out,                    \* stdout: the lines of the section being printed
    blocks,                 \* stdout: device sections completed
    probe_runs,             \* the calls of calculate_thermals_mask, by handle
    voltage                 \* the NvApiVoltage of get_voltage, as the driver left it

session_vars ==
    <<nvapi_lib, nvapi_QueryInterface, lib_refs, nv_session, crashed, step_ops, call_count>>
main_vars == <<handles, gpu_count, i, handle, mask, voltage_uv, hotspot, vram>>
probe_vars == <<thermals, bit, thermal_log>>
vars ==
    <<pc, exit_code, session_vars, resolvable, api_calls, api_call, main_vars, probe_vars,
      out, blocks, probe_runs, voltage>>

(* -------------------- the session state as a value -------------------- *)

\* The globals and the loader/driver state a session function works on.
World ==
    [lib |-> nvapi_lib, qi |-> nvapi_QueryInterface, refs |-> lib_refs,
     session |-> nv_session, crashed |-> FALSE, ops |-> <<>>]

\* The outcomes to consider in a step: a call into the module or a dlclose is
\* undefined only when no reference to the module is left.
UbChoices == IF lib_refs > 0 THEN {"survive"} ELSE UbOutcomes

\* The loader and driver operations counted in call_count.
CountedEntries == {"initialize", "enum", "unload", "voltage", "dlclose"}

\* call_count after the operations ops.
Tally(count, ops) ==
    [e \in CountedEntries |->
        count[e] + Cardinality({k \in DOMAIN ops : ops[k].op = e})]

\* The globals and the loader/driver state become those of the world w (w is
\* worked out once, as the value v).
Commit(w) ==
    \E v \in {w} :
        /\ call_count' = Tally(call_count, v.ops)
        /\ nvapi_lib' = v.lib
        /\ nvapi_QueryInterface' = v.qi
        /\ lib_refs' = v.refs
        /\ nv_session' = v.session
        /\ crashed' = v.crashed
        /\ step_ops' = v.ops

\* One loader or driver operation, with the module and session state it ran in.
Op(w, name, arg, status) ==
    [w EXCEPT !.ops = Append(@, [op |-> name, arg |-> arg, status |-> status,
                                 loaded |-> w.refs > 0, session |-> w.session])]

\* An operation whose behaviour is undefined: recorded, then a fault or not.
UbOp(w, name, arg, status, ub) ==
    [Op(w, name, arg, status) EXCEPT !.crashed = (ub = "crash")]

(* ------------------------------ loader -------------------------------- *)

\* dlopen(NVAPI_LIBRARY, RTLD_NOW): a reference on success, NULL on failure.
dlopen(w, ok) ==
    IF ok
        THEN [w |-> [Op(w, "dlopen", LibHandle, 0) EXCEPT !.refs = @ + 1], ret |-> LibHandle]
        ELSE [w |-> Op(w, "dlopen", LibHandle, 1), ret |-> NULL]

\* dlclose(h): drops a reference; on a handle with none left it is undefined.
dlclose(w, h, ub) ==
    IF w.crashed THEN w
    ELSE IF h # NULL /\ w.refs > 0
        THEN [Op(w, "dlclose", h, 0) EXCEPT !.refs = @ - 1]
        ELSE UbOp(w, "dlclose", h, 1, ub)

(* ------------------------------ driver -------------------------------- *)

\* nvapi_QueryInterface(id) inside the driver: the entry point, or NULL.
QueryInterface(id) == IF id \in resolvable THEN id ELSE NULL

\* A call through a function pointer the resolver returned: a fault when the
\* pointer is NULL, defined while the module is loaded, undefined once the
\* module has been released.
DriverCall(w, func, name, arg, status, ub) ==
    IF w.crashed THEN w
    ELSE IF func = NULL THEN UbOp(w, "call_null", arg, 1, "crash")
    ELSE IF w.refs > 0 THEN Op(w, name, arg, status)
    ELSE UbOp(w, name, arg, status, ub)

\* The driver's NvAPI_Initialize: the session is active once it returns 0.
NvAPI_Initialize(w, func, status, ub) ==
    LET w1 == DriverCall(w, func, "initialize", QUERY_NVAPI_INITIALIZE, status, ub)
    IN  IF w1.crashed \/ status # 0 THEN w1 ELSE [w1 EXCEPT !.session = "active"]

\* The driver's NvAPI_Unload: the session is over once it is invoked.
NvAPI_Unload(w, func, status, ub) ==
    LET w1 == DriverCall(w, func, "unload", QUERY_NVAPI_UNLOAD, status, ub)
    IN  IF w1.crashed THEN w1 ELSE [w1 EXCEPT !.session = "unloaded"]

\* The driver's NvAPI_EnumPhysicalGPUs: it writes a count and that many handles,
\* at most the buffer's capacity.  A device's handle is its position, 1, 2, ...
DriverHandles(count) ==
    [k \in 1..(IF count < NVAPI_MAX_PHYSICAL_GPUS THEN count ELSE NVAPI_MAX_PHYSICAL_GPUS) |-> k]

\* What the driver does to the first field of the structure it is handed (the
\* pointer is not const): it leaves it, or it stores a value of its own.
StampWrites == {"kept", "overwritten"}

\* The value a driver that overwrites the first field stores there.
DriverStamp == 0

\* What a thermal or voltage query answers: a status and the data the driver
\* stores in the structure (on a failure none, or data all the same).
ThermalResults ==
    [status : {0}, raw9 : RawChoices, raw15 : RawChoices, stamp : StampWrites]
        \cup [status : ErrStatuses, raw9 : {0}, raw15 : {0}, stamp : {"kept"}]
        \cup [status : {-1}, raw9 : {6400}, raw15 : {6400}, stamp : {"kept"}]

\* What the thermal query of get_thermals answers: its structure is handed to
\* the driver once, so a store into the first field reaches no later call.
ReadResults == {res \in ThermalResults : res.stamp = "kept"}

\* The raw values a driver writes while it is probed (the prober reads none).
ProbeRawChoices == {0, 6400}

\* What a thermal query of the prober answers.
ProbeResults ==
    {res \in ThermalResults : res.raw9 \in ProbeRawChoices /\ res.raw15 \in ProbeRawChoices}

VoltageResults ==
    [status : {0}, value_uv : VoltageChoices]
        \cup [status : ErrStatuses, value_uv : {0}]
        \cup [status : {-1}, value_uv : {850000}]

\* The driver's voltage query: it stores the microvolt value of its answer.
NvAPI_GetVoltage(v, res) == [v EXCEPT !.value_uv = res.value_uv]

\* The driver's thermal query: it stores the values of its answer and may
\* store into the first field.
NvAPI_GetThermals(t, res) ==
    [t EXCEPT !.values = (HotspotIndex :> res.raw9) @@ (VramIndex :> res.raw15),
              !.version = IF res.stamp = "overwritten" THEN DriverStamp ELSE @]

(* ------------------------- session functions -------------------------- *)

\* load_nvapi: dlopen, then dlsym; on a missing symbol the module is closed
\* and nvapi_lib keeps the closed handle.
load_nvapi(w, dlopen_ok, dlsym_ok) ==
    LET opened == dlopen(w, dlopen_ok)
        w1 == [opened.w EXCEPT !.lib = opened.ret]
        sym == IF dlsym_ok THEN QueryInterfacePtr ELSE NULL
        w2 == [Op(w1, "dlsym", QueryInterfacePtr, IF dlsym_ok THEN 0 ELSE 1)
                  EXCEPT !.qi = sym]
    IN  IF w1.lib = NULL THEN [w |-> w1, ret |-> -1]
        ELSE IF w2.qi = NULL THEN [w |-> dlclose(w2, w2.lib, "crash"), ret |-> -1]
        ELSE [w |-> w2, ret |-> 0]

\* get_nvapi_function: calls through the global nvapi_QueryInterface.
get_nvapi_function(w, id, ub) ==
    LET w1 == DriverCall(w, w.qi, "query_interface", id,
                         IF QueryInterface(id) = NULL THEN 1 ELSE 0, ub)
    IN  [w |-> w1, ret |-> IF w1.crashed THEN NULL ELSE QueryInterface(id)]

\* A status test that takes only negative statuses for failures.
StatusFailed_NegativeOnly(status) == status < 0

\* if (status != 0) ...
StatusFailed(status) == status # 0

\* A caller that never tests the pointer the resolver returned.
Unresolved_Unchecked(func) == FALSE

\* if (!func) return ...
Unresolved(func) == func = NULL

init_nvapi(w, status, ub) ==
    LET r == get_nvapi_function(w, QUERY_NVAPI_INITIALIZE, ub)
        w1 == NvAPI_Initialize(r.w, r.ret, status, ub)
    IN  IF r.w.crashed \/ Unresolved(r.ret) THEN [w |-> r.w, ret |-> -1]
        ELSE IF w1.crashed \/ StatusFailed(status) THEN [w |-> w1, ret |-> -1]
        ELSE [w |-> w1, ret |-> 0]

unload_nvapi(w, status, ub) ==
    LET r == get_nvapi_function(w, QUERY_NVAPI_UNLOAD, ub)
        w1 == IF w.qi = NULL THEN w
              ELSE IF r.w.crashed \/ Unresolved(r.ret) THEN r.w
              ELSE NvAPI_Unload(r.w, r.ret, status, ub)
    IN  IF w1.crashed \/ w1.lib = NULL THEN w1 ELSE dlclose(w1, w1.lib, ub)

enum_physical_gpus(w, status, count, ub) ==
    LET r == get_nvapi_function(w, QUERY_NVAPI_ENUM_PHYSICAL_GPUS, ub)
        w1 == DriverCall(r.w, r.ret, "enum", QUERY_NVAPI_ENUM_PHYSICAL_GPUS, status, ub)
    IN  IF r.w.crashed \/ Unresolved(r.ret)
            THEN [w |-> r.w, ret |-> -1, count |-> gpu_count, handles |-> handles]
        ELSE [w |-> w1, ret |-> IF StatusFailed(status) THEN -1 ELSE 0,
              count |-> count, handles |-> DriverHandles(count)]

(* --------------------------- integer helpers -------------------------- *)

\* 1 << bit in a 32-bit int: bit 31 is the sign bit.
Shl1(b) == IF b < 31 THEN 2 ^ b ELSE INT32_MIN

\* x - 1 in a 32-bit int, wrapping below INT32_MIN.
Dec32(x) == IF x = INT32_MIN THEN INT32_MAX ELSE x - 1

\* (int32_t)0xFFFFFFFF
AllBitsValid == -1

\* a / b as C divides: the quotient truncated toward zero (b > 0).
CDiv(a, b) == IF a >= 0 THEN a \div b ELSE (a + (b - 1)) \div b

\* The bits set in the 32-bit pattern of an int32_t, i.e. in the value read as
\* uint32_t (what printf's %08x shows).
Bits(x) ==
    LET low == IF x >= 0 THEN x ELSE (x + INT32_MAX) + 1
    IN  {b \in 0..30 : (low \div (2 ^ b)) % 2 = 1} \cup (IF x < 0 THEN {31} ELSE {})

\* Bit b (0..31) is set in the 32-bit pattern of x.
HasBit(x, b) ==
    IF b = 31 THEN x < 0
    ELSE ((IF x >= 0 THEN x ELSE (x + INT32_MAX) + 1) \div (2 ^ b)) % 2 = 1

(* ------------------------- prober and readers ------------------------- *)

ValueIndexes == {HotspotIndex, VramIndex}

\* memset(&thermals, 0, sizeof(thermals))
ZeroThermals == [version |-> 0, mask |-> 0, values |-> [k \in ValueIndexes |-> 0]]

\* thermals.version = sizeof(NvApiThermals) | (2 << 16)
ThermalsVersion == VersionStamp(SizeofNvApiThermals, 2)

\* voltage.version = sizeof(NvApiVoltage) | (1 << 16)
VoltageVersion == VersionStamp(SizeofNvApiVoltage, 1)

\* memset(&voltage, 0, sizeof(voltage))
ZeroVoltage == [version |-> 0, value_uv |-> 0]

\* A thermal query as the driver answered it, and who issued it.
LogEntry(by, t, status) == [by |-> by, mask |-> t.mask, status |-> status]

\* The arguments of a thermal query: the handle and the structure's mask and
\* first field as the driver finds them.
ThermalArgs(h, t) == <<h, t.mask, t.version>>

\* A scan that takes the bits in another order, bit 1 first and bit 0 last.
ProbeMask_FromBitOne(b) == Shl1((b + 1) % 32)

\* thermals.mask = 1 << bit
ProbeMask(b) == Shl1(b)

\* A prober that returns no bits once a probe has failed.
ProbeFailResult_NoBits(m) == 0

\* A prober that returns the mask of the failing probe itself.
ProbeFailResult_KeepMask(m) == m

\* return thermals.mask - 1
ProbeFailResult(m) == Dec32(m)

\* A decoder that takes 0 for a reading (raw >= 0).
DecodeTemp_ZeroValid(raw_value) ==
    LET raw == CDiv(raw_value, 256)
    IN  IF raw >= 0 /\ raw < 255 THEN raw ELSE -1

\* int32_t raw = values[k] / 256; the value if 0 < raw < 255, else -1.
DecodeTemp(raw_value) ==
    LET raw == CDiv(raw_value, 256)
    IN  IF raw > 0 /\ raw < 255 THEN raw ELSE -1

\* A get_thermals that decodes the structure before it tests the status.
get_thermals_DecodeFirst(w, h, m, out_hotspot, out_vram, res, ub) ==
    LET r == get_nvapi_function(w, QUERY_NVAPI_THERMALS, ub)
        t0 == [ZeroThermals EXCEPT !.version = ThermalsVersion, !.mask = m]
        w1 == DriverCall(r.w, r.ret, "thermal", ThermalArgs(h, t0), res.status, ub)
        t1 == NvAPI_GetThermals(t0, res)
    IN  IF r.w.crashed \/ Unresolved(r.ret)
            THEN [w |-> r.w, ret |-> -1, hotspot |-> out_hotspot, vram |-> out_vram,
                  thermals |-> ZeroThermals, log |-> <<>>]
        ELSE [w |-> w1, ret |-> IF w1.crashed \/ StatusFailed(res.status) THEN -1 ELSE 0,
              hotspot |-> DecodeTemp(t1.values[HotspotIndex]),
              vram |-> DecodeTemp(t1.values[VramIndex]),
              thermals |-> t1, log |-> <<LogEntry("read", t0, res.status)>>]

\* get_thermals: one query with the given mask; the outputs are written only
\* on success.
get_thermals(w, h, m, out_hotspot, out_vram, res, ub) ==
    LET r == get_nvapi_function(w, QUERY_NVAPI_THERMALS, ub)
        t0 == [ZeroThermals EXCEPT !.version = ThermalsVersion, !.mask = m]
        w1 == DriverCall(r.w, r.ret, "thermal", ThermalArgs(h, t0), res.status, ub)
        t1 == NvAPI_GetThermals(t0, res)
    IN  IF r.w.crashed \/ Unresolved(r.ret)
            THEN [w |-> r.w, ret |-> -1, hotspot |-> out_hotspot, vram |-> out_vram,
                  thermals |-> ZeroThermals, log |-> <<>>]
        ELSE IF w1.crashed \/ StatusFailed(res.status)
            THEN [w |-> w1, ret |-> -1, hotspot |-> out_hotspot, vram |-> out_vram,
                  thermals |-> t1, log |-> <<LogEntry("read", t0, res.status)>>]
        ELSE [w |-> w1, ret |-> 0,
              hotspot |-> DecodeTemp(t1.values[HotspotIndex]),
              vram |-> DecodeTemp(t1.values[VramIndex]),
              thermals |-> t1, log |-> <<LogEntry("read", t0, res.status)>>]

\* get_voltage: one query; the output is written only on success.
get_voltage(w, h, out_voltage_uv, res, ub) ==
    LET r == get_nvapi_function(w, QUERY_NVAPI_VOLTAGE, ub)
        v0 == [ZeroVoltage EXCEPT !.version = VoltageVersion]
        w1 == DriverCall(r.w, r.ret, "voltage", <<h, v0.version>>, res.status, ub)
        v1 == NvAPI_GetVoltage(v0, res)
    IN  IF r.w.crashed \/ Unresolved(r.ret)
            THEN [w |-> r.w, ret |-> -1, voltage_uv |-> out_voltage_uv,
                  voltage |-> ZeroVoltage]
        ELSE IF w1.crashed \/ StatusFailed(res.status)
            THEN [w |-> w1, ret |-> -1, voltage_uv |-> out_voltage_uv, voltage |-> v1]
        ELSE [w |-> w1, ret |-> 0, voltage_uv |-> v1.value_uv, voltage |-> v1]

(* ------------------------------- stdout ------------------------------- *)

\* One printed line: the field it reports and a number, "Not available" (na)
\* or "Error reading" (error).
Line(field, kind, val) == [field |-> field, kind |-> kind, val |-> val]

\* The 16-bit halves of a uint32_t.
U32Hi(x) == IF x >= 0 THEN x \div 65536 ELSE ((x + INT32_MAX) + 1) \div 65536 + 32768
U32Lo(x) == IF x >= 0 THEN x % 65536 ELSE ((x + INT32_MAX) + 1) % 65536

\* The decimal digits of hi * 2^16 + lo, by division by ten on the halves.
RECURSIVE Digits(_, _)
Digits(hi, lo) ==
    LET t == (hi % 10) * 65536 + lo
    IN  IF hi = 0 /\ lo < 10 THEN <<lo>>
        ELSE Append(Digits(hi \div 10, t \div 10), t % 10)

\* A printf that shows no more than INT32_MAX.
FormatU32_Saturated(x) ==
    IF x >= 0 THEN Digits(U32Hi(x), U32Lo(x)) ELSE Digits(U32Hi(INT32_MAX), U32Lo(INT32_MAX))

\* printf("%u"): the decimal digits of the uint32_t.
FormatU32(x) == Digits(U32Hi(x), U32Lo(x))

\* printf("Core Voltage: ... (%u µV)") of main, by get_voltage's return value.
PrintVoltage(ret, uv) ==
    IF ret = 0 THEN Line("Core Voltage", "value", FormatU32(uv))
    ELSE Line("Core Voltage", "na", 0)

\* A temperature line of main's success branch: the number if it is >= 0.
PrintTemp(field, t) ==
    IF t >= 0 THEN Line(field, "value", t) ELSE Line(field, "na", 0)

\* A main that prints the temperature outputs whatever get_thermals returned.
PrintThermals_IgnoreRet(ret, hs, vr) ==
    <<PrintTemp("Hotspot Temperature", hs), PrintTemp("Memory Temperature", vr)>>

\* The two temperature lines of main, by get_thermals' return value.
PrintThermals(ret, hs, vr) ==
    IF ret = 0
        THEN <<PrintTemp("Hotspot Temperature", hs), PrintTemp("Memory Temperature", vr)>>
        ELSE <<Line("Hotspot Temperature", "error", 0), Line("Memory Temperature", "error", 0)>>

(* -------------------------------- main -------------------------------- *)

Running == pc \notin {"exit", "api"} /\ ~crashed

Exit(code) == pc' = "exit" /\ exit_code' = code

\* if (load_nvapi() != 0) return 1;
MainLoad ==
    /\ pc = "load" /\ Running
    /\ \E dlopen_ok \in BOOLEAN, dlsym_ok \in BOOLEAN :
        \E r \in {load_nvapi(World, dlopen_ok, dlsym_ok)} :
            /\ Commit(r.w)
            /\ IF r.ret # 0 THEN Exit(1) ELSE pc' = "init" /\ UNCHANGED exit_code
    /\ UNCHANGED <<resolvable, api_calls, api_call, main_vars, probe_vars, out, blocks,
                   probe_runs, voltage>>

\* A main that returns on an init failure without closing the module.
main_init_failed_NoClose(w, ub) == w

\* What main does when init_nvapi failed: dlclose(nvapi_lib).
main_init_failed(w, ub) == dlclose(w, w.lib, ub)

\* if (init_nvapi() != 0) { dlclose(nvapi_lib); return 1; }
MainInit ==
    /\ pc = "init" /\ Running
    /\ \E status \in Statuses, ub \in UbChoices :
        \E r \in {init_nvapi(World, status, ub)} :
            IF r.ret # 0
                THEN Commit(main_init_failed(r.w, ub)) /\ Exit(1)
                ELSE Commit(r.w) /\ pc' = "enum" /\ UNCHANGED exit_code
    /\ UNCHANGED <<resolvable, api_calls, api_call, main_vars, probe_vars, out, blocks,
                   probe_runs, voltage>>

\* A main that also closes the module itself after unload_nvapi.
main_enum_failed_CloseTwice(w, status, ub) ==
    LET w1 == unload_nvapi(w, status, ub) IN dlclose(w1, w1.lib, ub)

\* What main does when enum_physical_gpus failed: unload_nvapi().
main_enum_failed(w, status, ub) == unload_nvapi(w, status, ub)

\* if (enum_physical_gpus(handles, &gpu_count) != 0) { unload_nvapi(); return 1; }
\* printf("Found %u NVIDIA GPU(s)"), with a driver that reports a count in Counts.
MainEnumOf(Counts) ==
    /\ pc = "enum" /\ Running
    /\ \E status \in Statuses, count \in Counts, unload_status \in Statuses,
          ub \in UbChoices :
        \E r \in {enum_physical_gpus(World, status, count, ub)} :
            /\ gpu_count' = r.count
            /\ handles' = r.handles
            /\ IF r.ret # 0
                   THEN /\ Commit(main_enum_failed(r.w, unload_status, ub))
                        /\ Exit(1)
                        /\ UNCHANGED out
                   ELSE /\ Commit(r.w)
                        /\ pc' = "loop"
                        /\ out' = <<Line("Found", "value", r.count)>>
                        /\ UNCHANGED exit_code
    /\ i' = 0
    /\ UNCHANGED <<resolvable, api_calls, api_call, handle, mask, voltage_uv, hotspot, vram,
                   probe_vars, blocks, probe_runs, voltage>>

\* The enumeration of a driver with up to MaxGpus devices.
MainEnum == MainEnumOf(0..MaxGpus)

\* The enumeration of a driver that reports as many devices as main's buffer
\* holds, or more.
MainEnumMany ==
    MainEnumOf(NVAPI_MAX_PHYSICAL_GPUS..(NVAPI_MAX_PHYSICAL_GPUS + MaxExcessGpus))

\* What a word of main's stack outside the slots the driver filled may hold.
StrayHandles == {-1}

\* handles[k]: the slot's handle; outside the slots the driver filled (and
\* from k = 64 on outside the buffer) the read is undefined: a fault, or
\* whatever the word holds.
ReadHandle(k) ==
    IF k + 1 \in DOMAIN handles
        THEN {[value |-> handles[k + 1], crashed |-> FALSE]}
        ELSE {[value |-> h, crashed |-> FALSE] : h \in StrayHandles}
                 \cup {[value |-> 0, crashed |-> TRUE]}

\* for (i = 0; i < gpu_count; i++): the section header and handle = handles[i].
\* The locals of the loop body are new objects in each iteration and hold
\* nothing yet; the thermal log starts empty for the new handle.
MainLoop ==
    /\ pc = "loop" /\ Running
    /\ IF i < gpu_count
           THEN /\ \E slot \in ReadHandle(i) :
                      handle' = slot.value /\ crashed' = slot.crashed
                /\ out' = <<Line("GPU", "value", i)>>
                /\ pc' = "cm_resolve"
           ELSE /\ handle' = 0
                /\ pc' = "cleanup"
                /\ UNCHANGED <<out, crashed>>
    /\ mask' = 0 /\ voltage_uv' = 0 /\ hotspot' = 0 /\ vram' = 0
    /\ thermals' = ZeroThermals
    /\ voltage' = ZeroVoltage
    /\ thermal_log' = <<>>
    /\ step_ops' = <<>>
    /\ call_count' = [call_count EXCEPT !["voltage"] = 0]
    /\ UNCHANGED <<exit_code, nvapi_lib, nvapi_QueryInterface, lib_refs, nv_session,
                   resolvable, api_calls, api_call, handles, gpu_count, i, bit, blocks,
                   probe_runs>>

\* One more call of calculate_thermals_mask on the handle h.
CountRun(runs, h) ==
    IF h \in DOMAIN runs THEN [runs EXCEPT ![h] = @ + 1] ELSE runs @@ (h :> 1)

\* calculate_thermals_mask returns m; main prints it.
ProbeReturn(m) ==
    /\ mask' = m
    /\ out' = Append(out, Line("Thermals mask", "value", m))
    /\ thermals' = ZeroThermals
    /\ bit' = 0
    /\ pc' = "voltage"

\* calculate_thermals_mask, lines 177-185: resolve the entry point (return 1
\* if it is NULL), zero and stamp the structure, mask = 1.
ProbeResolve ==
    /\ pc = "cm_resolve" /\ Running
    /\ \E ub \in UbChoices :
        \E r \in {get_nvapi_function(World, QUERY_NVAPI_THERMALS, ub)} :
            /\ Commit(r.w)
            /\ IF Unresolved(r.ret)
                   THEN ProbeReturn(1)
                   ELSE /\ thermals' = [ZeroThermals EXCEPT !.version = ThermalsVersion,
                                                            !.mask = 1]
                        /\ pc' = "cm_baseline"
                        /\ UNCHANGED <<mask, out, bit>>
    /\ probe_runs' = CountRun(probe_runs, handle)
    /\ UNCHANGED <<exit_code, resolvable, api_calls, api_call, handles, gpu_count, i, handle,
                   voltage_uv, hotspot, vram, thermal_log, blocks, voltage>>

\* A prober that issues a failed query a second time.
ProbeQuery_Retry(t, res) ==
    LET w1 == DriverCall(World, QUERY_NVAPI_THERMALS, "thermal", ThermalArgs(handle, t),
                         res.status, "crash")
        w2 == DriverCall(w1, QUERY_NVAPI_THERMALS, "thermal", ThermalArgs(handle, t),
                         res.status, "crash")
        e == LogEntry("probe", t, res.status)
    IN  IF res.status # 0
            THEN Commit(w2) /\ thermal_log' = Append(Append(thermal_log, e), e)
            ELSE Commit(w1) /\ thermal_log' = Append(thermal_log, e)

\* One query of the prober on its structure: the call, the driver's writes and
\* the log entry.
ProbeQuery(t, res) ==
    /\ Commit(DriverCall(World, QUERY_NVAPI_THERMALS, "thermal", ThermalArgs(handle, t),
                         res.status, "crash"))
    /\ thermal_log' = Append(thermal_log, LogEntry("probe", t, res.status))

\* calculate_thermals_mask, lines 188-192: the baseline query; return 1 if it
\* fails.
ProbeBaselineOf(Results) ==
    /\ pc = "cm_baseline" /\ Running
    /\ \E res \in Results :
        /\ ProbeQuery(thermals, res)
        /\ IF StatusFailed(res.status)
               THEN ProbeReturn(1)
               ELSE /\ thermals' = NvAPI_GetThermals(thermals, res)
                    /\ bit' = 0
                    /\ pc' = "cm_probe"
                    /\ UNCHANGED <<mask, out>>
    /\ UNCHANGED <<exit_code, resolvable, api_calls, api_call, handles, gpu_count, i, handle,
                   voltage_uv, hotspot, vram, blocks, probe_runs, voltage>>

ProbeBaseline == ProbeBaselineOf(ProbeResults)

\* calculate_thermals_mask, lines 195-201: one iteration of the scan.
ProbeBitOf(Results) ==
    /\ pc = "cm_probe" /\ Running
    /\ bit < MaskBits
    /\ \E res \in Results :
        LET t == [thermals EXCEPT !.mask = ProbeMask(bit)]
        IN  /\ ProbeQuery(t, res)
            /\ IF StatusFailed(res.status)
                   THEN ProbeReturn(ProbeFailResult(t.mask))
                   ELSE /\ thermals' = NvAPI_GetThermals(t, res)
                        /\ bit' = bit + 1
                        /\ UNCHANGED <<pc, mask, out>>
    /\ UNCHANGED <<exit_code, resolvable, api_calls, api_call, handles, gpu_count, i, handle,
                   voltage_uv, hotspot, vram, blocks, probe_runs, voltage>>

ProbeBit == ProbeBitOf(ProbeResults)

\* calculate_thermals_mask, line 203: the scan ended without a failure.
ProbeDone ==
    /\ pc = "cm_probe" /\ Running
    /\ ~(bit < MaskBits)
    /\ ProbeReturn(AllBitsValid)
    /\ step_ops' = <<>>
    /\ UNCHANGED <<exit_code, nvapi_lib, nvapi_QueryInterface, lib_refs, nv_session,
                   crashed, call_count, resolvable, api_calls, api_call, handles,
                   gpu_count, i, handle, voltage_uv, hotspot, vram, thermal_log, blocks,
                   probe_runs, voltage>>

\* main, lines 317-323: voltage_uv = 0, get_voltage, the voltage line.
MainVoltageOf(Results) ==
    /\ pc = "voltage" /\ Running
    /\ \E res \in Results, ub \in UbChoices :
        \E r \in {get_voltage(World, handle, 0, res, ub)} :
            /\ Commit(r.w)
            /\ voltage_uv' = r.voltage_uv
            /\ voltage' = r.voltage
            /\ out' = Append(out, PrintVoltage(r.ret, r.voltage_uv))
    /\ pc' = "thermals"
    /\ UNCHANGED <<exit_code, resolvable, api_calls, api_call, handles, gpu_count, i, handle,
                   mask, hotspot, vram, probe_vars, blocks, probe_runs>>

MainVoltage == MainVoltageOf(VoltageResults)

\* A main that reads with every mask bit set whatever the prober returned.
main_thermals_mask_Unmasked == AllBitsValid

\* The mask main passes to get_thermals: its local mask, the prober's result.
main_thermals_mask == mask

\* main, lines 326-344: hotspot = vram = 0, get_thermals, the two temperature
\* lines, the blank line that ends the section; then i++.
MainThermalsOf(Results) ==
    /\ pc = "thermals" /\ Running
    /\ \E res \in Results, ub \in UbChoices :
        \E r \in {get_thermals(World, handle, main_thermals_mask, 0, 0, res, ub)} :
            /\ thermals' = r.thermals
            /\ hotspot' = r.hotspot
            /\ vram' = r.vram
            /\ thermal_log' = thermal_log \o r.log
            /\ out' = out \o PrintThermals(r.ret, r.hotspot, r.vram)
            /\ Commit(r.w)
    /\ blocks' = blocks + 1
    /\ i' = i + 1
    /\ pc' = "loop"
    /\ UNCHANGED <<exit_code, resolvable, api_calls, api_call, handles, gpu_count, handle,
                   mask, voltage_uv, bit, probe_runs, voltage>>

MainThermals == MainThermalsOf(ReadResults)

\* main, lines 348-351: unload_nvapi(); printf("Done."); return 0;
MainCleanup ==
    /\ pc = "cleanup" /\ Running
    /\ \E status \in Statuses, ub \in UbChoices :
        Commit(unload_nvapi(World, status, ub))
    /\ out' = <<Line("Done", "value", 0)>>
    /\ Exit(0)
    /\ UNCHANGED <<resolvable, api_calls, api_call, main_vars, probe_vars, blocks,
                   probe_runs, voltage>>

(* ------------------- a client of the session functions ---------------- *)

ApiReady == pc = "api" /\ ~crashed /\ api_calls < MaxApiCalls

ApiFrame(name) ==
    /\ api_calls' = api_calls + 1
    /\ api_call' = name
    /\ UNCHANGED <<pc, exit_code, resolvable, main_vars, probe_vars, out, blocks,
                   probe_runs, voltage>>

ApiLoad ==
    /\ ApiReady
    /\ \E dlopen_ok \in BOOLEAN, dlsym_ok \in BOOLEAN :
        Commit(load_nvapi(World, dlopen_ok, dlsym_ok).w)
    /\ ApiFrame("load_nvapi")

ApiInit ==
    /\ ApiReady
    /\ \E status \in Statuses, ub \in UbChoices :
        Commit(init_nvapi(World, status, ub).w)
    /\ ApiFrame("init_nvapi")

ApiUnload ==
    /\ ApiReady
    /\ \E status \in Statuses, ub \in UbChoices :
        Commit(unload_nvapi(World, status, ub))
    /\ ApiFrame("unload_nvapi")

(* --------------------------- specifications --------------------------- *)

InitState(start) ==
    /\ pc = start
    /\ exit_code = 0
    /\ nvapi_lib = NULL
    /\ nvapi_QueryInterface = NULL
    /\ lib_refs = 0
    /\ nv_session = "none"
    /\ resolvable \in SUBSET QueryIds
    /\ crashed = FALSE
    /\ step_ops = <<>>
    /\ call_count = [e \in CountedEntries |-> 0]
    /\ api_calls = 0
    /\ api_call = "none"
    /\ handles = <<>>
    /\ gpu_count = 0
    /\ i = 0
    /\ handle = 0
    /\ mask = 0
    /\ voltage_uv = 0
    /\ hotspot = 0
    /\ vram = 0
    /\ thermals = ZeroThermals
    /\ bit = 0
    /\ thermal_log = <<>>
    /\ out = <<>>
    /\ blocks = 0
    /\ probe_runs = <<>>
    /\ voltage = ZeroVoltage

\* main is entered with the globals NULL.
Init == InitState("load")

\* main with a driver that resolves the session and enumeration entry points
\* and neither telemetry entry point.
InitMany ==
    /\ InitState("load")
    /\ resolvable = {QUERY_NVAPI_INITIALIZE, QUERY_NVAPI_UNLOAD, QUERY_NVAPI_ENUM_PHYSICAL_GPUS}

Next ==
    \/ MainLoad
    \/ MainInit
    \/ MainEnum
    \/ MainLoop
    \/ ProbeResolve
    \/ ProbeBaseline
    \/ ProbeBit
    \/ ProbeDone
    \/ MainVoltage
    \/ MainThermals
    \/ MainCleanup

Spec == Init /\ [][Next]_vars

\* The answers of a driver told apart by status alone (the data all zero):
\* which calls main makes next depends on no data the driver returns.
StatusOnlyThermal == {res \in ThermalResults : res.raw9 = 0 /\ res.raw15 = 0}
StatusOnlyVoltage == {res \in VoltageResults : res.value_uv = 0}

\* main's run against such a driver.
NextFair ==
    \/ MainLoad
    \/ MainInit
    \/ MainEnum
    \/ MainLoop
    \/ ProbeResolve
    \/ ProbeBaselineOf(StatusOnlyThermal)
    \/ ProbeBitOf(StatusOnlyThermal)
    \/ ProbeDone
    \/ MainVoltageOf(StatusOnlyVoltage)
    \/ MainThermalsOf(StatusOnlyThermal)
    \/ MainCleanup

\* main's run when every call into the loader and the driver returns: main is
\* one sequential thread, so the step it is at is taken.
SpecFair == Init /\ [][NextFair]_vars /\ WF_vars(NextFair)

\* main's run with the driver of InitMany, whose device count reaches and
\* exceeds NVAPI_MAX_PHYSICAL_GPUS.
NextMany ==
    \/ MainLoad
    \/ MainInit
    \/ MainEnumMany
    \/ MainLoop
    \/ ProbeResolve
    \/ MainVoltage
    \/ MainThermals
    \/ MainCleanup

SpecMany == InitMany /\ [][NextMany]_vars

\* A client that calls the session functions in any order.
InitApi == InitState("api")

NextApi ==
    \/ ApiLoad
    \/ ApiInit
    \/ ApiUnload

SpecApi == InitApi /\ [][NextApi]_vars

(* ------------------------------- claims ------------------------------ *)

\* calculate_thermals_mask has just returned to main (its queries are the log).
ProbeReturned == pc = "voltage"

\* main has just finished a device section (get_thermals was the last call).
BlockDone == pc = "loop" /\ blocks > 0

Last(seq) == seq[Len(seq)]

\* get_thermals issued its query on the current handle.
ReadIssued == thermal_log # <<>> /\ Last(thermal_log).by = "read"

\* The prober's baseline query was issued and succeeded.
BaselineSucceeded ==
    thermal_log # <<>> /\ thermal_log[1].by = "probe" /\ thermal_log[1].status = 0

\* The bits 0..31 whose probe (the query after the baseline and k earlier
\* probes) failed.
FailedProbes ==
    {k \in 0..31 : /\ k + 2 <= Len(thermal_log)
                   /\ thermal_log[k + 2].by = "probe"
                   /\ thermal_log[k + 2].status # 0}

Least(S) == CHOOSE k \in S : \A j \in S : k <= j

\* C1: when the thermal entry point resolves, calculate_thermals_mask returns
\* 1 if the baseline query (mask 1) fails; otherwise, with k the smallest bit
\* whose probe (mask exactly 1<<k) fails, the value whose 32-bit pattern has
\* exactly the bits below k set, for every k in 0..31 (0x3F for k = 6); and
\* the pattern with all 32 bits set if none of the 32 probes fails.
C1_MaskDiscovery ==
    (ProbeReturned /\ QUERY_NVAPI_THERMALS \in resolvable) =>
        /\ Len(thermal_log) >= 1
        /\ thermal_log[1].mask = 1
        /\ \A k \in 0..31 :
              k + 2 <= Len(thermal_log) => Bits(thermal_log[k + 2].mask) = {k}
        /\ IF thermal_log[1].status # 0 THEN mask = 1
           ELSE IF FailedProbes # {}
               THEN /\ Bits(mask) = 0..(Least(FailedProbes) - 1)
                    /\ Least(FailedProbes) = 6 => mask = 63
                    /\ Least(FailedProbes) = 0 => mask = 0
                    /\ Least(FailedProbes) = 31 => mask = INT32_MAX
           ELSE /\ Len(thermal_log) = 33
                /\ Bits(mask) = 0..31
                /\ mask = -1

\* The driver failed the probe of bit 6 and no earlier query: the result is 0x3F.
C1_Witness ==
    /\ ProbeReturned
    /\ BaselineSucceeded
    /\ FailedProbes = {6}
    /\ mask = 63

\* The statuses of the queries on the current handle depend on the mask alone.
StatelessDriver ==
    \A a, b \in DOMAIN thermal_log :
        thermal_log[a].mask = thermal_log[b].mask =>
            thermal_log[a].status = thermal_log[b].status

\* The answers on the current handle are those of a driver that has a set of
\* valid sensor bits and accepts a mask exactly when every bit set in it is
\* valid: no rejected mask lies within the bits of the accepted masks.
BitwiseDriver ==
    \A a \in DOMAIN thermal_log :
        thermal_log[a].status # 0 =>
            \E b \in Bits(thermal_log[a].mask) :
                \A c \in DOMAIN thermal_log :
                    thermal_log[c].status = 0 => ~HasBit(thermal_log[c].mask, b)

\* C2 as stated: for every driver whose thermal status depends only on the
\* device and the mask and whose baseline query succeeds, the thermal query
\* issued with the mask the prober returned has status 0.
C2_ReturnedMaskAccepted_Original ==
    (BlockDone /\ ReadIssued /\ StatelessDriver /\ BaselineSucceeded) =>
        /\ Last(thermal_log).mask = mask
        /\ Last(thermal_log).status = 0

\* C2, amended: for every driver that accepts a mask exactly when all the bits
\* set in it are valid sensor bits of the device, and whose baseline query
\* succeeds, the thermal query issued with the mask the prober returned has
\* status 0.
C2_ReturnedMaskAccepted ==
    (BlockDone /\ ReadIssued /\ BitwiseDriver /\ BaselineSucceeded) =>
        /\ Last(thermal_log).mask = mask
        /\ Last(thermal_log).status = 0

\* A bitwise driver with bits 0..5 valid: the prober returned 0x3F and the read
\* with it succeeded.
C2_Witness ==
    /\ BlockDone /\ ReadIssued /\ BitwiseDriver /\ BaselineSucceeded
    /\ mask = 63
    /\ Last(thermal_log).mask = 63
    /\ Last(thermal_log).status = 0

\* The operations of the latest step that satisfy P.
OpsWhere(P(_)) == {k \in DOMAIN step_ops : P(step_ops[k])}

IsThermalCall(o) == o.op = "thermal"
IsVoltageCall(o) == o.op = "voltage"
IsTelemetryCall(o) == o.op \in {"enum", "thermal", "voltage"}

\* The latest step was get_thermals and its query failed.
ReadFailed == ReadIssued /\ Last(thermal_log).status # 0

\* The latest step was get_voltage and its query failed / succeeded.
VoltageFailed == \E k \in OpsWhere(IsVoltageCall) : step_ops[k].status # 0
VoltageSucceeded == \E k \in OpsWhere(IsVoltageCall) : step_ops[k].status = 0

ErrorLines ==
    <<Line("Hotspot Temperature", "error", 0), Line("Memory Temperature", "error", 0)>>

\* main called unload_nvapi in the latest step (its first act is the lookup of
\* the unload entry point).
UnloadCalled ==
    /\ step_ops # <<>>
    /\ step_ops[1].op = "query_interface"
    /\ step_ops[1].arg = QUERY_NVAPI_UNLOAD

\* Once main is in the device loop it leaves only with code 0, after the
\* section of every enumerated device and a call of unload_nvapi.
LoopRunsToTheEnd ==
    /\ (pc = "exit" /\ exit_code # 0) => (blocks = 0 /\ i = 0)
    /\ (pc = "exit" /\ exit_code = 0) =>
          (blocks = gpu_count /\ UnloadCalled /\ lib_refs = 0)

\* C3: a failed thermal query is not fatal. In the state after it, main has
\* printed "Error reading" for both temperatures of the device after the
\* device's voltage line, and goes on with the next device; a failed voltage
\* query yields "Not available" for the voltage alone and the thermal read
\* follows; the thermal step leaves the voltage line as printed; and the run
\* ends with code 0 after every device and unload.
C3_ReadFailureNotFatal ==
    /\ [](ReadFailed =>
            /\ pc = "loop" /\ blocks = i
            /\ Len(out) = 5
            /\ out[3] \in {PrintVoltage(0, voltage_uv), Line("Core Voltage", "na", 0)}
            /\ SubSeq(out, 4, 5) = ErrorLines)
    /\ [](VoltageFailed =>
            /\ pc = "thermals"
            /\ Len(out) = 3
            /\ out[3] = Line("Core Voltage", "na", 0))
    /\ [](VoltageSucceeded =>
            /\ pc = "thermals"
            /\ out[3] = PrintVoltage(0, voltage_uv))
    /\ [](LoopRunsToTheEnd)
    /\ [][pc = "thermals" => (Len(out') = 5 /\ SubSeq(out', 1, 3) = out)]_vars

\* Device 0 was reported in full and the thermal query of device 1 failed
\* after its voltage was read: two error lines under a voltage value.
C3_Witness ==
    /\ ReadFailed
    /\ i = 2 /\ blocks = 2
    /\ out[3] = Line("Core Voltage", "value", <<8, 5, 0, 0, 0, 0>>)
    /\ SubSeq(out, 4, 5) = ErrorLines

\* C4 as stated: whatever was called before it, unload_nvapi closes the
\* module, looks up the unload entry point and invokes it only while the
\* module is loaded (never on a module already released).
C4_UnloadSafe_Original ==
    api_call = "unload_nvapi" =>
        \A k \in DOMAIN step_ops :
            step_ops[k].op \in {"dlclose", "query_interface", "unload"} =>
                step_ops[k].loaded

\* C5: every enumeration, thermal and voltage call of main is made while the
\* module is loaded and the session is active (initialize returned 0 and the
\* unload entry point has not been invoked).
C5_TelemetryInsideSession ==
    \A k \in OpsWhere(IsTelemetryCall) :
        /\ step_ops[k].loaded
        /\ step_ops[k].session = "active"

\* A thermal query on the second device, inside the session.
C5_Witness ==
    /\ i = 1
    /\ \E k \in OpsWhere(IsThermalCall) :
          step_ops[k].loaded /\ step_ops[k].session = "active"

\* initialize, enumerate and (per handle) the voltage query are issued once.
SingleCalls ==
    /\ call_count["initialize"] <= 1
    /\ call_count["enum"] <= 1
    /\ call_count["voltage"] <= 1

\* C6 as stated: after a driver call failed, the same call with the same
\* arguments is never issued again; no thermal query repeats the mask of an
\* earlier failed thermal query on the same device.
C6_NoRetries_Original ==
    /\ SingleCalls
    /\ \A a, b \in DOMAIN thermal_log :
          (a < b /\ thermal_log[a].status # 0) =>
              thermal_log[b].mask # thermal_log[a].mask

\* C6, amended: the only failed call that is issued again with the same
\* arguments is the prober's failed baseline query (mask 1), which
\* get_thermals issues once more as its read with the fallback mask 1.
C6_NoRetries ==
    /\ SingleCalls
    /\ \A a \in DOMAIN thermal_log :
          thermal_log[a].status # 0 =>
              \A b \in (a + 1)..Len(thermal_log) :
                  thermal_log[b].mask = thermal_log[a].mask =>
                      /\ a = 1 /\ b = 2
                      /\ thermal_log[a].by = "probe" /\ thermal_log[a].mask = 1
                      /\ thermal_log[b].by = "read"

\* A probe failed (bit 3) and the read that followed used another mask.
C6_Witness ==
    /\ BlockDone /\ ReadIssued
    /\ FailedProbes = {3}
    /\ Len(thermal_log) = 6
    /\ Last(thermal_log).mask = 7

\* C7: an unresolved thermal or voltage entry point is never invoked; the
\* reader that needs it reports its field as unavailable ("Not available" for
\* the voltage, "Error reading" for the temperatures, with mask 1 from the
\* prober); the other sensor is still queried and reported; and the run goes
\* on over all devices to exit code 0.
C7_UnresolvedSkipped ==
    /\ ~crashed
    /\ \A k \in DOMAIN step_ops : step_ops[k].op # "call_null"
    /\ OpsWhere(IsThermalCall) # {} => QUERY_NVAPI_THERMALS \in resolvable
    /\ OpsWhere(IsVoltageCall) # {} => QUERY_NVAPI_VOLTAGE \in resolvable
    /\ (pc = "thermals" /\ QUERY_NVAPI_VOLTAGE \notin resolvable) =>
          out[3] = Line("Core Voltage", "na", 0)
    /\ (pc = "thermals" /\ QUERY_NVAPI_THERMALS \notin resolvable
                        /\ QUERY_NVAPI_VOLTAGE \in resolvable) =>
          /\ mask = 1
          /\ OpsWhere(IsVoltageCall) # {}
          /\ VoltageSucceeded => out[3] = PrintVoltage(0, voltage_uv)
    /\ (BlockDone /\ QUERY_NVAPI_THERMALS \notin resolvable) =>
          /\ Len(out) = 5
          /\ SubSeq(out, 4, 5) = ErrorLines
    /\ (BlockDone /\ QUERY_NVAPI_VOLTAGE \notin resolvable
                  /\ QUERY_NVAPI_THERMALS \in resolvable) =>
          /\ OpsWhere(IsThermalCall) # {}
          /\ ReadIssued
          /\ Last(thermal_log).status = 0 =>
                SubSeq(out, 4, 5) = <<PrintTemp("Hotspot Temperature", hotspot),
                                      PrintTemp("Memory Temperature", vram)>>
    /\ LoopRunsToTheEnd

\* The thermal entry point is unresolved: the second device's section shows a
\* voltage value and two error lines, and no thermal query was made.
C7_Witness ==
    /\ QUERY_NVAPI_THERMALS \notin resolvable
    /\ BlockDone /\ blocks = 2
    /\ thermal_log = <<>>
    /\ out[3] = Line("Core Voltage", "value", <<8, 5, 0, 0, 0, 0>>)
    /\ SubSeq(out, 4, 5) = ErrorLines

\* A failure that is fatal to the run: dlopen or dlsym failed, the initialize
\* or enumerate entry point did not resolve or returned a nonzero status.
IsFatalFailure(o) ==
    \/ o.op \in {"dlopen", "dlsym", "initialize", "enum"} /\ o.status # 0
    \/ /\ o.op = "query_interface"
       /\ o.arg \in {QUERY_NVAPI_INITIALIZE, QUERY_NVAPI_ENUM_PHYSICAL_GPUS}
       /\ o.status # 0

\* C8: when load, init or enumeration fails (an unresolved initialize or
\* enumerate ID included), main exits with a nonzero code in that same step,
\* without having processed a device, whatever count the driver wrote, and
\* with no reference to the module left.
C8_FatalFailures ==
    OpsWhere(IsFatalFailure) # {} =>
        /\ pc = "exit"
        /\ exit_code # 0
        /\ blocks = 0 /\ i = 0
        /\ thermal_log = <<>> /\ call_count["voltage"] = 0
        /\ lib_refs = 0

\* The enumeration failed after the driver had written a count of 2.
C8_Witness ==
    /\ pc = "exit" /\ exit_code = 1
    /\ \E k \in DOMAIN step_ops : step_ops[k].op = "enum" /\ step_ops[k].status # 0
    /\ gpu_count = 2
    /\ blocks = 0
    /\ lib_refs = 0

\* C9 as stated: whenever main returns 0, the report of at least one device
\* has been completed.
C9_ExitZeroMeansReport_Original ==
    (pc = "exit" /\ exit_code = 0) => blocks >= 1

\* The reading a raw value stands for: raw / 256 when that lies in 1..254,
\* else unavailable.
ExpectedTemp(raw_value) ==
    IF raw_value >= 256 /\ raw_value < 65280
        THEN CHOOSE d \in 1..254 : 256 * d <= raw_value /\ raw_value < 256 * (d + 1)
        ELSE -1

\* The values the claim names as unavailable.
NamedUnavailable(raw_value) == raw_value <= 255 \/ raw_value >= 65280

\* C10: after a successful thermal query hotspot is decoded from values[9]
\* and memory from values[15], each from its own raw value alone: raw / 256 if
\* that is in 1..254, else -1; 6400 gives 25; 0, 1..255, negative values and
\* values >= 65280 give -1; and main prints the number or "Not available".
C10_Decode ==
    (BlockDone /\ ReadIssued /\ Last(thermal_log).status = 0) =>
        /\ hotspot = ExpectedTemp(thermals.values[9])
        /\ vram = ExpectedTemp(thermals.values[15])
        /\ thermals.values[9] = 6400 => hotspot = 25
        /\ thermals.values[15] = 6400 => vram = 25
        /\ NamedUnavailable(thermals.values[9]) => hotspot = -1
        /\ NamedUnavailable(thermals.values[15]) => vram = -1
        /\ out[4] = (IF hotspot = -1 THEN Line("Hotspot Temperature", "na", 0)
                     ELSE Line("Hotspot Temperature", "value", hotspot))
        /\ out[5] = (IF vram = -1 THEN Line("Memory Temperature", "na", 0)
                     ELSE Line("Memory Temperature", "value", vram))

\* Hotspot raw 6400 reads 25 while the memory sensor is unavailable (raw 0).
C10_Witness ==
    /\ BlockDone /\ ReadIssued /\ Last(thermal_log).status = 0
    /\ thermals.values[9] = 6400 /\ hotspot = 25
    /\ thermals.values[15] = 0 /\ vram = -1
    /\ out[4] = Line("Hotspot Temperature", "value", 25)
    /\ out[5] = Line("Memory Temperature", "na", 0)

\* The first field of the structure in each thermal and voltage call of the
\* latest step, as the driver finds it.
ThermalStamps == {step_ops[k].arg[3] : k \in OpsWhere(IsThermalCall)}
VoltageStamps == {step_ops[k].arg[2] : k \in OpsWhere(IsVoltageCall)}

\* C11 as stated: at every call of the thermal query the structure's first
\* field is 168 | 0x20000, and at every call of the voltage query it is
\* 76 | 0x10000, for each call of the prober on its one structure, whatever
\* the driver wrote into the structure on earlier calls.
C11_StampAtEveryCall_Original ==
    /\ ThermalStamps \subseteq {168 + 131072}
    /\ VoltageStamps \subseteq {76 + 65536}

\* The value calculate_thermals_mask computes from the answers to its queries
\* on the current handle (1 when it issued none).
ProberResult ==
    IF thermal_log = <<>> \/ thermal_log[1].by # "probe" \/ thermal_log[1].status # 0 THEN 1
    ELSE IF FailedProbes = {} THEN -1
    ELSE IF Least(FailedProbes) = 31 THEN INT32_MAX
    ELSE 2 ^ Least(FailedProbes) - 1

\* The "Thermals mask" lines of the section being printed.
MaskLines == {k \in DOMAIN out : out[k].field = "Thermals mask"}

\* The devices main has reached: those of completed sections and the current one.
DevicesReached ==
    1..(IF pc \in {"cm_baseline", "cm_probe", "voltage", "thermals"} THEN i + 1 ELSE i)

\* C12: for each enumerated device main runs the prober exactly once, before
\* any thermal read of that device; every thermal read of the device is issued
\* on its handle with exactly the mask the prober returned (and main printed)
\* for that handle; and a device once probed is never probed again.
C12_ProbedOncePerDevice ==
    /\ DOMAIN probe_runs = DevicesReached
    /\ \A h \in DOMAIN probe_runs : probe_runs[h] = 1
    /\ \A k \in OpsWhere(IsThermalCall) :
          /\ step_ops[k].arg[1] = handle
          /\ handle \in DOMAIN probe_runs
    /\ \A a \in DOMAIN thermal_log :
          thermal_log[a].by = "read" => (a = Len(thermal_log) /\ BlockDone)
    /\ (pc \in {"voltage", "thermals"} \/ (BlockDone /\ handle # 0)) =>
          /\ mask = ProberResult
          /\ MaskLines = {2}
          /\ out[2] = Line("Thermals mask", "value", mask)
          /\ handle = handles[blocks + (IF BlockDone THEN 0 ELSE 1)]
    /\ ReadIssued =>
          /\ Last(thermal_log).mask = mask
          /\ \A k \in OpsWhere(IsThermalCall) : step_ops[k].arg[2] = mask

\* The second device was probed once, to mask 7 (the probe of bit 3 failed),
\* and its thermal read was issued on its handle with mask 7.
C12_Witness ==
    /\ BlockDone /\ ReadIssued
    /\ blocks = 2 /\ handle = handles[2]
    /\ probe_runs = <<1, 1>>
    /\ FailedProbes = {3} /\ mask = 7
    /\ \E k \in OpsWhere(IsThermalCall) : step_ops[k].arg[1] = handle /\ step_ops[k].arg[2] = 7

\* The queries the prober issued on the current handle, in order.
ProbeQueries == {a \in DOMAIN thermal_log : thermal_log[a].by = "probe"}

\* The prober is between two of its queries.
Probing == pc \in {"cm_baseline", "cm_probe"}

\* C13: the prober's first query is the baseline with mask 1; the queries
\* after it are the probes of bit 0, 1, 2, ... in increasing order, each with
\* mask exactly 1 << bit; a query that returned a nonzero status is the
\* prober's last (none follows the first failed probe, and no probe follows a
\* failed baseline); and there are at most 1 + 32 queries.
C13_ProbeOrder ==
    /\ (Probing \/ ProbeReturned) =>
          /\ ProbeQueries = DOMAIN thermal_log
          /\ Len(thermal_log) <= 33
          /\ \A a \in ProbeQueries :
                /\ a = 1 => thermal_log[a].mask = 1
                /\ a > 1 => /\ a - 2 < 31 => thermal_log[a].mask = 2 ^ (a - 2)
                            /\ a - 2 = 31 => thermal_log[a].mask = INT32_MIN
                /\ thermal_log[a].status # 0 => (ProbeReturned /\ a = Len(thermal_log))
    /\ pc = "cm_baseline" => thermal_log = <<>>
    /\ pc = "cm_probe" => Len(thermal_log) = bit + 1

\* The baseline and the probes of bits 0, 1, 2 succeeded and the probe of bit
\* 3 failed: five queries with masks 1, 1, 2, 4, 8 and none after them.
C13_Witness ==
    /\ ProbeReturned
    /\ [a \in DOMAIN thermal_log |-> thermal_log[a].mask] = <<1, 1, 2, 4, 8>>
    /\ [a \in DOMAIN thermal_log |-> thermal_log[a].status = 0] =
          <<TRUE, TRUE, TRUE, TRUE, FALSE>>

\* C14: on a successful voltage query get_voltage returns the microvolt field
\* of the structure as the driver left it, for every value including 0 and
\* 0xFFFFFFFF, and main prints that integer in decimal as the microvolt value
\* (850000 as 850000, 0 as 0, 0xFFFFFFFF as 4294967295), never "Not available".
C14_VoltageVerbatim ==
    VoltageSucceeded =>
        /\ pc = "thermals"
        /\ voltage_uv = voltage.value_uv
        /\ voltage.value_uv \in VoltageChoices
        /\ out[3].field = "Core Voltage" /\ out[3].kind = "value"
        /\ voltage.value_uv = 850000 => out[3].val = <<8, 5, 0, 0, 0, 0>>
        /\ voltage.value_uv = 0 => out[3].val = <<0>>
        /\ voltage.value_uv = UINT32_MAX => out[3].val = <<4, 2, 9, 4, 9, 6, 7, 2, 9, 5>>

\* The driver reported 0xFFFFFFFF microvolts and main printed 4294967295.
C14_Witness ==
    /\ VoltageSucceeded
    /\ voltage.value_uv = UINT32_MAX
    /\ voltage_uv = UINT32_MAX
    /\ out[3] = Line("Core Voltage", "value", <<4, 2, 9, 4, 9, 6, 7, 2, 9, 5>>)

\* The numeric lines among the temperature lines of the section.
NumericTempLines ==
    {k \in DOMAIN out : /\ out[k].field \in {"Hotspot Temperature", "Memory Temperature"}
                        /\ out[k].kind = "value"}

\* C15: when the thermal query returns a nonzero status, or its entry point
\* does not resolve, get_thermals leaves the caller's hotspot and memory
\* outputs as they were (0, main's initial values), whatever the driver stored
\* in the structure, and returns failure: main prints "Error reading" twice
\* and no numeric temperature; and a failed or unresolved voltage query leaves
\* the caller's voltage output as it was (0) and no voltage value is printed.
C15_FailedReadersLeaveOutputs ==
    /\ (ReadFailed \/ (BlockDone /\ handle # 0 /\ QUERY_NVAPI_THERMALS \notin resolvable)) =>
          /\ hotspot = 0 /\ vram = 0
          /\ SubSeq(out, 4, 5) = ErrorLines
          /\ NumericTempLines = {}
    /\ (VoltageFailed \/ (pc = "thermals" /\ QUERY_NVAPI_VOLTAGE \notin resolvable)) =>
          /\ voltage_uv = 0
          /\ out[3] = Line("Core Voltage", "na", 0)

\* Both queries of a device failed after the driver had stored data in the
\* structures (6400 and 850000): the outputs are still 0 and nothing numeric
\* was printed.
C15_Witness ==
    /\ ReadFailed
    /\ thermals.values[HotspotIndex] = 6400 /\ thermals.values[VramIndex] = 6400
    /\ hotspot = 0 /\ vram = 0
    /\ voltage.value_uv = 850000 /\ voltage_uv = 0
    /\ out[3] = Line("Core Voltage", "na", 0)
    /\ SubSeq(out, 4, 5) = ErrorLines

IsDlclose(o) == o.op = "dlclose"
IsUnloadEntry(o) == o.op = "unload"

\* C16: main releases the module exactly once on every path on which dlopen
\* succeeded and never when it failed: at exit no reference is left, dlclose
\* has run once if nvapi_lib was set and not at all otherwise, always on the
\* live handle and never a second time; and the driver's unload entry point
\* is invoked at most once, only in a session that initialize opened with
\* status 0.
C16_ReleasedExactlyOnce ==
    /\ ~crashed
    /\ call_count["dlclose"] <= 1
    /\ nvapi_lib = NULL => (call_count["dlclose"] = 0 /\ lib_refs = 0)
    /\ nvapi_lib # NULL => lib_refs + call_count["dlclose"] = 1
    /\ pc = "exit" =>
          /\ lib_refs = 0
          /\ call_count["dlclose"] = (IF nvapi_lib # NULL THEN 1 ELSE 0)
    /\ \A k \in OpsWhere(IsDlclose) :
          step_ops[k].loaded /\ step_ops[k].arg = LibHandle /\ step_ops[k].status = 0
    /\ call_count["unload"] <= 1
    /\ call_count["unload"] = 1 => call_count["initialize"] = 1
    /\ \A k \in OpsWhere(IsUnloadEntry) :
          step_ops[k].loaded /\ step_ops[k].session = "active"

\* The enumeration failed: main invoked the unload entry point in the active
\* session, closed the module once and exited with 1.
C16_Witness ==
    /\ pc = "exit" /\ exit_code = 1
    /\ call_count["enum"] = 1
    /\ call_count["unload"] = 1 /\ call_count["dlclose"] = 1
    /\ OpsWhere(IsUnloadEntry) # {} /\ OpsWhere(IsDlclose) # {}
    /\ nvapi_lib # NULL /\ lib_refs = 0

\* The values 2^k - 1 for k in lo..32, as 32-bit patterns.
IsLowBitMask(x, lo) == \E k \in lo..32 : Bits(x) = 0..(k - 1)

\* C17: the value calculate_thermals_mask returns is always a contiguous
\* low-bit mask; when the driver's thermal status depends only on the device
\* and the mask it is 2^k - 1 with k in 1..32, never 0; and a result of 0
\* arises only when the driver accepted the baseline query (mask 1) and
\* rejected the probe of bit 0, the same query, issued right after it.
C17_ResultIsLowBitMask ==
    ProbeReturned =>
        /\ IsLowBitMask(mask, 0)
        /\ StatelessDriver => (mask # 0 /\ IsLowBitMask(mask, 1))
        /\ mask = 0 =>
              /\ Len(thermal_log) = 2
              /\ thermal_log[1].mask = 1 /\ thermal_log[1].status = 0
              /\ thermal_log[2].mask = 1 /\ thermal_log[2].status # 0
        /\ mask = 1 <=> (thermal_log = <<>> \/ thermal_log[1].status # 0
                                             \/ FailedProbes = {1})

\* A driver that answers by the mask alone and rejects only bit 31: the
\* prober returned 2^31 - 1 after 33 queries.
C17_Witness ==
    /\ ProbeReturned /\ StatelessDriver
    /\ Len(thermal_log) = 33
    /\ FailedProbes = {31}
    /\ mask = INT32_MAX

\* main holds a handle it read from handles[i].
HandleInUse == pc \in {"cm_resolve", "cm_baseline", "cm_probe", "voltage", "thermals"}

\* The slots of handles[] the enumeration filled: the first min(count, 64).
FilledSlots ==
    1..(IF gpu_count < 64 THEN gpu_count ELSE 64)

\* C18 as stated: whatever count the enumeration reports, main reads no slot
\* of handles[] at an index of 64 or more, and every handle it passes to the
\* prober or a reader is one of the first min(count, 64) slots the
\* enumeration filled.
C18_HandleReadsInBuffer_Original ==
    /\ ~crashed
    /\ HandleInUse =>
          /\ i < 64
          /\ i + 1 \in FilledSlots
          /\ handle = handles[i + 1]

\* The thermal queries on the current handle, by issuer.
ReadQueries == {a \in DOMAIN thermal_log : thermal_log[a].by = "read"}

\* The calls main has issued stay within one initialize, one enumerate, one
\* unload, and per device one voltage query and 34 thermal queries (33 of the
\* prober and one read); main goes through the devices in order, once.
CallBounds ==
    /\ call_count["initialize"] <= 1
    /\ call_count["enum"] <= 1
    /\ call_count["unload"] <= 1
    /\ call_count["voltage"] <= 1
    /\ Cardinality(ProbeQueries) <= 33
    /\ Cardinality(ReadQueries) <= 1
    /\ Len(thermal_log) <= 34
    /\ i <= gpu_count /\ blocks = i
    /\ \A h \in DOMAIN probe_runs : probe_runs[h] <= 1

\* C19: when every call into the driver returns, main terminates (it reaches
\* its return), having issued at most one initialize call, one enumerate
\* call, one unload call, and for each of the devices reported one voltage
\* query and 34 thermal queries, 33 of them from the prober.
C19_TerminatesWithBoundedCalls ==
    /\ <>(pc = "exit")
    /\ [](pc = "exit" => (exit_code = 1 \/ blocks = gpu_count))
    /\ []CallBounds

\* The last of two devices took all 34 thermal queries and one voltage query.
C19_Witness ==
    /\ BlockDone
    /\ blocks = 2 /\ gpu_count = 2
    /\ Len(thermal_log) = 34
    /\ Cardinality(ProbeQueries) = 33
    /\ call_count["voltage"] = 1

====
